---- MODULE Spec2Model ----
(***************************************************************************)
(* Central lock table of the distributed concurrency controller:          *)
(* sddms-central/src/lock_table.rs and its submodules, the live            *)
(* transaction set, and the FinalizeTransaction handler of the central     *)
(* service.  Every acquisition of the resource-map mutex is one step.      *)
(***************************************************************************)
EXTENDS Integers, Sequences, FiniteSets, TLC

Transactions == {"t1", "t2", "t3"}
Resources == {"A", "B"}
LockModes == {"Shared", "Exclusive"}

\* longest batch of lock requests one acquire_locks call carries
MaxBatch == 2

VARIABLES
    resources,      \* LockTable.resources: resource name -> queue of ResourceLock
    growing,        \* LiveTransactionSet.growing
    shrinking,      \* LiveTransactionSet.shrinking
    issued,         \* transaction ids the id generator has handed out
    pc,             \* where the call in flight of each transaction stands
    requests,       \* the sorted batch of the acquire_locks call in flight
    req_idx,        \* index of the request the acquire_locks loop works on
    lock_set_snap,  \* lock_set() snapshot a release_all_locks / finalize call holds
    returned,       \* <<transaction, operation, status>> when the step just taken
                    \* returned a call, <<>> otherwise
    granted,        \* per transaction and resource, the strongest mode an Ok
                    \* acquire_locks gave and the transaction has not given back
    sites,          \* TransactionIdGenerator.sites: site id -> counter
    task,           \* per concurrent task, the call of the id generator or of
                    \* the live transaction set it is in, lock step by lock step
    outcome,        \* the calls of the tasks that returned, in the order they did
    connections,    \* ConnectionPool.connections: the site ids registered
    replicated,     \* the replication updates sent: <<site, originating site>>
    finalize_mode,  \* per transaction, the mode of its last FinalizeTransactionRequest
    input,          \* the argument a function of the tools is applied to
    output          \* what the function returned, [op |-> "none"] before it is applied

lock_vars == <<resources, issued, pc, requests, req_idx, lock_set_snap, returned,
               granted>>

task_vars == <<sites, task, outcome>>

pool_vars == <<connections, replicated, finalize_mode>>

tool_vars == <<input, output>>

vars == <<resources, growing, shrinking, issued, pc, requests, req_idx,
          lock_set_snap, returned, granted, sites, task, outcome,
          connections, replicated, finalize_mode, input, output>>

-----------------------------------------------------------------------------
(* ResourceLock: an Exclusive lock is kept with owners = {owner} and       *)
(* order = <<owner>>.                                                       *)

shared(id) == [kind |-> "Shared", owners |-> {id}, order |-> <<id>>]

exclusive(id) == [kind |-> "Exclusive", owners |-> {id}, order |-> <<id>>]

is_shared(lock) == lock.kind = "Shared"

is_exclusive(lock) == lock.kind = "Exclusive"

lock_owner(lock) == lock.order[1]

owners(lock) == lock.owners

\* every transaction taken for an owner
is_locked_by_anyone(lock, id) == TRUE

is_locked_by(lock, id) == id \in lock.owners

is_locked_by_shared(lock, id) == is_shared(lock) /\ id \in lock.owners

is_locked_by_exclusive(lock, id) == is_exclusive(lock) /\ lock_owner(lock) = id

is_first_locked_by(lock, id) == lock.order[1] = id

\* the order left as it is
remove_first_kept(order, id) == order

\* order.iter().position(|x| x == id) followed by order.remove(index)
remove_first(order, id) ==
    IF \E i \in 1..Len(order) : order[i] = id
    THEN LET idx == CHOOSE i \in 1..Len(order) :
                        /\ order[i] = id
                        /\ \A j \in 1..(i - 1) : order[j] # id
         IN  SubSeq(order, 1, idx - 1) \o SubSeq(order, idx + 1, Len(order))
    ELSE order

\* (Exclusive{owner}, Some(residual shared)) as a sequence of one or two locks
to_exclusive(lock, owner) ==
    IF is_shared(lock)
    THEN LET rest == lock.owners \ {owner}
             residual == [kind |-> "Shared", owners |-> rest,
                          order |-> remove_first(lock.order, owner)]
         IN  IF rest # {} THEN <<exclusive(owner), residual>>
                          ELSE <<exclusive(owner)>>
    ELSE <<exclusive(lock_owner(lock))>>

\* the right lock's order ahead of the left lock's
join_two_shared_reversed(left, right) ==
    <<[kind |-> "Shared", owners |-> left.owners \cup right.owners,
       order |-> right.order \o left.order]>>

join_two_shared(left, right) ==
    <<[kind |-> "Shared", owners |-> left.owners \cup right.owners,
       order |-> left.order \o right.order]>>

try_upgrade_enqueued_lock(left, right) ==
    IF is_first_locked_by(left, lock_owner(right))
    THEN to_exclusive(left, lock_owner(right))
    ELSE <<left, right>>

try_join_with(left, right) ==
    IF is_shared(left) /\ is_shared(right) THEN join_two_shared(left, right)
    ELSE IF is_shared(left) /\ is_exclusive(right)
         THEN try_upgrade_enqueued_lock(left, right)
         ELSE <<left, right>>

-----------------------------------------------------------------------------
(* lock_queue_opt.rs *)

RECURSIVE optimize_pass_loop(_, _)
optimize_pass_loop(lock_queue, new_lock_queue) ==
    IF lock_queue = <<>> THEN new_lock_queue
    ELSE IF Len(lock_queue) = 1 THEN Append(new_lock_queue, lock_queue[1])
    ELSE LET joined == try_join_with(lock_queue[1], lock_queue[2])
             rest == Tail(Tail(lock_queue))
         IN  optimize_pass_loop(
                 IF Len(joined) = 2 THEN <<joined[2]>> \o rest ELSE rest,
                 Append(new_lock_queue, joined[1]))

optimize_lock_queue_pass(lock_queue) == optimize_pass_loop(lock_queue, <<>>)

\* one pass only
optimize_lock_queue_once(lock_queue) == optimize_lock_queue_pass(lock_queue)

RECURSIVE optimize_lock_queue(_)
optimize_lock_queue(lock_queue) ==
    LET last == optimize_lock_queue_pass(lock_queue)
    IN  IF Len(last) = Len(lock_queue) THEN last ELSE optimize_lock_queue(last)

-----------------------------------------------------------------------------
(* deadlock_graph.rs: a graph is a function node -> set of successor nodes *)

queue_owners(queue) == UNION {queue[i].owners : i \in 1..Len(queue)}

\* construct(): an edge from every owner of an entry to every owner of the
\* entry right before it, in every queue
construct(table) ==
    LET nodes == UNION {queue_owners(table[r]) : r \in DOMAIN table}
        succ(u) == UNION {UNION {IF u \in table[r][i].owners
                                 THEN table[r][i - 1].owners ELSE {}
                                 : i \in 2..Len(table[r])}
                          : r \in DOMAIN table}
    IN  [u \in nodes |-> succ(u)]

insert_edges(graph, source, dests) ==
    [u \in DOMAIN graph \cup {source} \cup dests |->
        (IF u \in DOMAIN graph THEN graph[u] ELSE {})
            \cup (IF u = source THEN dests ELSE {})]

RECURSIVE detect_cycle_with_starting_point(_, _, _, _)
RECURSIVE detect_cycle_neighbors(_, _, _, _)
\* returns [found, visited]; the recursion stack is restored on return
detect_cycle_with_starting_point(graph, current, visited, recursion_stack) ==
    IF current \in recursion_stack THEN [found |-> TRUE, visited |-> visited]
    ELSE IF current \in visited THEN [found |-> FALSE, visited |-> visited]
    ELSE detect_cycle_neighbors(graph, graph[current], visited \cup {current},
                                recursion_stack \cup {current})

detect_cycle_neighbors(graph, todo, visited, recursion_stack) ==
    IF todo = {} THEN [found |-> FALSE, visited |-> visited]
    ELSE LET neighbor == CHOOSE n \in todo : TRUE
             sub == detect_cycle_with_starting_point(graph, neighbor, visited,
                                                     recursion_stack)
         IN  IF sub.found THEN sub
             ELSE detect_cycle_neighbors(graph, todo \ {neighbor}, sub.visited,
                                         recursion_stack)

RECURSIVE has_cycle_from(_, _, _)
has_cycle_from(graph, todo, visited) ==
    IF todo = {} THEN FALSE
    ELSE LET node == CHOOSE n \in todo : TRUE
         IN  IF node \in visited THEN has_cycle_from(graph, todo \ {node}, visited)
             ELSE LET sub == detect_cycle_with_starting_point(graph, node, visited, {})
                  IN  sub.found \/ has_cycle_from(graph, todo \ {node}, sub.visited)

has_cycle(graph) == has_cycle_from(graph, DOMAIN graph, {})

\* no edge from the transaction to itself
would_cause_deadlock_others(table, transaction_id, resource) ==
    has_cycle(insert_edges(construct(table), transaction_id,
                           queue_owners(table[resource]) \ {transaction_id}))

would_cause_deadlock(table, transaction_id, resource) ==
    has_cycle(insert_edges(construct(table), transaction_id,
                           queue_owners(table[resource])))

-----------------------------------------------------------------------------
(* lock_table.rs: what the calls do to the table under the resource-map mutex *)

LockRequests == [record : Resources, mode : LockModes]

Batches == UNION {[1..n -> LockRequests] : n \in 1..MaxBatch}

\* requests.sort(): stable, and LockRequest::cmp compares the modes only
sort_requests(batch) ==
    SelectSeq(batch, LAMBDA q : q.mode = "Shared")
        \o SelectSeq(batch, LAMBDA q : q.mode = "Exclusive")

with_queue(table, resource, queue) ==
    [r \in DOMAIN table \cup {resource} |->
        IF r = resource THEN queue ELSE table[r]]

lock_set(table, transaction_id) ==
    {r \in DOMAIN table :
        table[r] # <<>> /\ is_locked_by(table[r][1], transaction_id)}

holds_lock(table, transaction_id, resource, mode) ==
    /\ table[resource] # <<>>
    /\ IF mode = "Exclusive"
       THEN is_locked_by_exclusive(table[resource][1], transaction_id)
       ELSE is_locked_by(table[resource][1], transaction_id)

can_promote(table, transaction_id, resource, mode) ==
    /\ table[resource] # <<>>
    /\ mode = "Exclusive"
    /\ is_locked_by_shared(table[resource][1], transaction_id)

\* the front lock left as it is
promoted_queue_unsplit(queue, transaction_id) == queue

promoted_queue(queue, transaction_id) ==
    LET split == to_exclusive(queue[1], transaction_id)
    IN  IF Len(split) = 2
        THEN <<split[1], split[2]>> \o Tail(queue)
        ELSE <<split[1]>> \o Tail(queue)

\* the new lock pushed to the front of the queue
enqueued_queue_front(queue, transaction_id, mode) ==
    optimize_lock_queue(
        <<IF mode = "Exclusive" THEN exclusive(transaction_id)
                                ELSE shared(transaction_id)>> \o queue)

enqueued_queue(queue, transaction_id, mode) ==
    optimize_lock_queue(Append(queue,
        IF mode = "Exclusive" THEN exclusive(transaction_id)
                              ELSE shared(transaction_id)))

\* the front lock dropped whoever else owns it
release_one_dropping(table, transaction_id, resource) ==
    IF resource \notin DOMAIN table THEN [table |-> table, status |-> "Panic"]
    ELSE IF table[resource] = <<>> \/ ~is_locked_by(table[resource][1], transaction_id)
    THEN [table |-> table, status |-> "NotOwned"]
    ELSE [table |-> with_queue(table, resource, Tail(table[resource])),
          status |-> "Ok"]

\* one resource of release_lock_internal: [table, status]
release_one(table, transaction_id, resource) ==
    IF resource \notin DOMAIN table THEN [table |-> table, status |-> "Panic"]
    ELSE IF table[resource] = <<>> \/ ~is_locked_by(table[resource][1], transaction_id)
    THEN [table |-> table, status |-> "NotOwned"]
    ELSE LET lock == table[resource][1]
             left == [kind |-> "Shared", owners |-> lock.owners \ {transaction_id},
                      order |-> remove_first(lock.order, transaction_id)]
             remove_lock == IF is_shared(lock) THEN left.owners = {} ELSE TRUE
         IN  [table |-> with_queue(table, resource,
                           IF remove_lock THEN Tail(table[resource])
                           ELSE <<left>> \o Tail(table[resource])),
              status |-> "Ok"]

\* [table, status, released]: the loop stops at the first resource that fails
RECURSIVE release_lock_internal(_, _, _)
release_lock_internal(table, transaction_id, resource_list) ==
    IF resource_list = <<>>
    THEN [table |-> table, status |-> "Ok", released |-> {}]
    ELSE LET one == release_one(table, transaction_id, Head(resource_list))
             rest == release_lock_internal(one.table, transaction_id,
                                           Tail(resource_list))
         IN  IF one.status # "Ok"
             THEN [table |-> one.table, status |-> one.status, released |-> {}]
             ELSE [table |-> rest.table, status |-> rest.status,
                   released |-> rest.released \cup {Head(resource_list)}]

\* the front lock only
retain_requests_front(queue, transaction_id) ==
    IF queue = <<>> THEN <<>>
    ELSE IF is_locked_by(Head(queue), transaction_id) /\ Head(queue).owners = {transaction_id}
         THEN Tail(queue)
         ELSE queue

\* retain_mut(remove_request_from_lock) on one queue
RECURSIVE retain_requests(_, _)
retain_requests(queue, transaction_id) ==
    IF queue = <<>> THEN <<>>
    ELSE LET lock == Head(queue)
             rest == retain_requests(Tail(queue), transaction_id)
         IN  IF ~is_locked_by(lock, transaction_id) THEN <<lock>> \o rest
             ELSE IF is_exclusive(lock) \/ lock.owners \ {transaction_id} = {} THEN rest
             ELSE <<[kind |-> "Shared", owners |-> lock.owners \ {transaction_id},
                     order |-> remove_first(lock.order, transaction_id)]>> \o rest

-----------------------------------------------------------------------------
(* The calls.  A transaction has one call in flight at a time.  A step is   *)
(* one acquisition of the resource-map mutex; has_lock_already,             *)
(* attempt_lock_promotion and detect_deadlock of one request change the     *)
(* table at most once, in the acquisition that decides the request, and are *)
(* taken as the one step acquire_locks_request.  The phase of a transaction *)
(* is read and written by its own calls only, so the reads and writes of    *)
(* the live transaction set go with the mutex step that follows them.       *)

Idle(t) == pc[t] = "idle"

Return(t, op, status) ==
    /\ pc' = [pc EXCEPT ![t] = "idle"]
    /\ requests' = [requests EXCEPT ![t] = <<>>]
    /\ req_idx' = [req_idx EXCEPT ![t] = 0]
    /\ lock_set_snap' = [lock_set_snap EXCEPT ![t] = {}]
    /\ returned' = <<t, op, status>>

\* an unwrap() on None: the task of the call dies
Panic(t, op) ==
    /\ pc' = [pc EXCEPT ![t] = "panicked"]
    /\ requests' = [requests EXCEPT ![t] = <<>>]
    /\ req_idx' = [req_idx EXCEPT ![t] = 0]
    /\ lock_set_snap' = [lock_set_snap EXCEPT ![t] = {}]
    /\ returned' = <<t, op, "Panic">>

CurrentRequest(t) == requests[t][req_idx[t]]

\* TransactionIdGenerator::next_trans_id: the ids of a site come out in order
TransactionOrder == <<"t1", "t2", "t3">>

next_trans_id ==
    IF Cardinality(issued) < Len(TransactionOrder)
    THEN TransactionOrder[Cardinality(issued) + 1] ELSE "none"

\* LiveTransactionSet
is_live(t) == t \in growing \/ t \in shrinking

is_growing(t) == t \in growing

is_shrinking(t) == t \in shrinking

transaction_exists(t) == t \in growing \/ t \in shrinking

\* CentralService::register_transaction: a fresh id, then LockTable::register_transaction
register_transaction(t) ==
    /\ Idle(t)
    /\ t = next_trans_id
    /\ issued' = issued \cup {t}
    /\ IF transaction_exists(t)
       THEN /\ Return(t, "register", "AlreadyExists")
            /\ UNCHANGED growing
       ELSE /\ growing' = growing \cup {t}
            /\ Return(t, "register", "Ok")
    /\ UNCHANGED <<resources, shrinking>>

acquire_locks(t, batch) ==
    /\ Idle(t)
    /\ IF ~is_growing(t)
       THEN Return(t, "acquire", "NotGrowing")
       ELSE /\ pc' = [pc EXCEPT ![t] = "request"]
            /\ requests' = [requests EXCEPT ![t] = sort_requests(batch)]
            /\ req_idx' = [req_idx EXCEPT ![t] = 1]
            /\ returned' = <<>>
            /\ UNCHANGED lock_set_snap
    /\ UNCHANGED <<resources, growing, shrinking, issued>>

\* inserts the empty queue of a resource the table does not know yet
add_new_resource(t) ==
    /\ pc[t] = "request"
    /\ CurrentRequest(t).record \notin DOMAIN resources
    /\ resources' = with_queue(resources, CurrentRequest(t).record, <<>>)
    /\ returned' = <<>>
    /\ UNCHANGED <<growing, shrinking, issued, pc, requests, req_idx, lock_set_snap>>

\* the loop's `continue`: the next request, or the wait loop after the last
NextRequest(t) ==
    IF req_idx[t] < Len(requests[t])
    THEN /\ req_idx' = [req_idx EXCEPT ![t] = req_idx[t] + 1]
         /\ pc' = [pc EXCEPT ![t] = "request"]
    ELSE /\ req_idx' = [req_idx EXCEPT ![t] = 0]
         /\ pc' = [pc EXCEPT ![t] = "wait"]

\* the request enqueued before the deadlock check answers
acquire_locks_request_enqueued(t) ==
    /\ pc[t] = "request"
    /\ CurrentRequest(t).record \in DOMAIN resources
    /\ LET r == CurrentRequest(t).record
           mode == CurrentRequest(t).mode
       IN  IF holds_lock(resources, t, r, mode)
           THEN /\ NextRequest(t)
                /\ returned' = <<>>
                /\ UNCHANGED <<resources, requests, lock_set_snap>>
           ELSE IF can_promote(resources, t, r, mode)
           THEN /\ resources' = with_queue(resources, r, promoted_queue(resources[r], t))
                /\ NextRequest(t)
                /\ returned' = <<>>
                /\ UNCHANGED <<requests, lock_set_snap>>
           ELSE IF would_cause_deadlock(resources, t, r)
           THEN /\ Return(t, "acquire", "Deadlocked")
                /\ resources' = with_queue(resources, r, enqueued_queue(resources[r], t, mode))
           ELSE /\ pc' = [pc EXCEPT ![t] = "enqueue"]
                /\ returned' = <<>>
                /\ UNCHANGED <<resources, requests, req_idx, lock_set_snap>>
    /\ UNCHANGED <<growing, shrinking, issued>>

\* the body of the request loop up to the enqueue: HadLock, PromotedLock,
\* Deadlocked, or on to enqueue_resource
acquire_locks_request(t) ==
    /\ pc[t] = "request"
    /\ CurrentRequest(t).record \in DOMAIN resources
    /\ LET r == CurrentRequest(t).record
           mode == CurrentRequest(t).mode
       IN  IF holds_lock(resources, t, r, mode)
           THEN /\ NextRequest(t)
                /\ returned' = <<>>
                /\ UNCHANGED <<resources, requests, lock_set_snap>>
           ELSE IF can_promote(resources, t, r, mode)
           THEN /\ resources' = with_queue(resources, r, promoted_queue(resources[r], t))
                /\ NextRequest(t)
                /\ returned' = <<>>
                /\ UNCHANGED <<requests, lock_set_snap>>
           ELSE IF would_cause_deadlock(resources, t, r)
           THEN /\ Return(t, "acquire", "Deadlocked")
                /\ UNCHANGED resources
           ELSE /\ pc' = [pc EXCEPT ![t] = "enqueue"]
                /\ returned' = <<>>
                /\ UNCHANGED <<resources, requests, req_idx, lock_set_snap>>
    /\ UNCHANGED <<growing, shrinking, issued>>

enqueue_resource(t) ==
    /\ pc[t] = "enqueue"
    /\ LET r == CurrentRequest(t).record
       IN  resources' = with_queue(resources, r,
               enqueued_queue(resources[r], t, CurrentRequest(t).mode))
    /\ NextRequest(t)
    /\ returned' = <<>>
    /\ UNCHANGED <<growing, shrinking, issued, requests, lock_set_snap>>

\* the check loop of one round of the wait loop: TRUE when every requested
\* resource has the transaction in its front lock
lock_acquisition_attempt(table, transaction_id, batch) ==
    \A i \in 1..Len(batch) :
        /\ table[batch[i].record] # <<>>
        /\ is_locked_by(table[batch[i].record][1], transaction_id)

\* the check loop meets an empty queue (front().unwrap()) before it meets a
\* front lock of another transaction
wait_panics(table, transaction_id, batch) ==
    \E i \in 1..Len(batch) :
        /\ table[batch[i].record] = <<>>
        /\ \A j \in 1..(i - 1) :
               /\ table[batch[j].record] # <<>>
               /\ is_locked_by(table[batch[j].record][1], transaction_id)

\* the round of the wait loop that ends the call; a round that finds a lock
\* missing yields and leaves the state as it is
acquire_locks_wait(t) ==
    /\ pc[t] = "wait"
    /\ IF lock_acquisition_attempt(resources, t, requests[t])
       THEN Return(t, "acquire", "Ok")
       ELSE /\ wait_panics(resources, t, requests[t])
            /\ Panic(t, "acquire")
    /\ UNCHANGED <<resources, growing, shrinking, issued>>

\* every growing transaction moved to shrinking
start_shrinking_everyone(t) ==
    IF is_shrinking(t)
    THEN [ok |-> TRUE, growing |-> growing, shrinking |-> shrinking]
    ELSE IF ~is_growing(t)
         THEN [ok |-> FALSE, growing |-> growing, shrinking |-> shrinking]
         ELSE [ok |-> TRUE, growing |-> {},
               shrinking |-> shrinking \cup growing]

\* `if !is_shrinking { start_shrinking()? }` at the head of release_lock and
\* release_all_locks
start_shrinking_if_necessary(t) ==
    IF is_shrinking(t)
    THEN [ok |-> TRUE, growing |-> growing, shrinking |-> shrinking]
    ELSE IF ~is_growing(t)
         THEN [ok |-> FALSE, growing |-> growing, shrinking |-> shrinking]
         ELSE [ok |-> TRUE, growing |-> growing \ {t},
               shrinking |-> shrinking \cup {t}]

ReleaseLockBody(t, r, op) ==
    LET phase == start_shrinking_if_necessary(t)
        rel == release_one(resources, t, r)
    IN  IF ~phase.ok
        THEN /\ Return(t, op, "NotGrowing")
             /\ UNCHANGED <<resources, growing, shrinking>>
        ELSE /\ growing' = phase.growing
             /\ shrinking' = phase.shrinking
             /\ resources' = rel.table
             /\ IF rel.status = "Panic" THEN Panic(t, op)
                ELSE IF rel.status = "NotOwned" \/ op = "release"
                     THEN Return(t, op, rel.status)
                     ELSE /\ lock_set_snap' =
                                 [lock_set_snap EXCEPT ![t] = lock_set_snap[t] \ {r}]
                          /\ returned' = <<>>
                          /\ UNCHANGED <<pc, requests, req_idx>>

release_lock(t, r) ==
    /\ Idle(t)
    /\ ReleaseLockBody(t, r, "release")
    /\ UNCHANGED issued

\* LockTable::release_all_locks up to the lock_set snapshot
release_all_locks(t) ==
    /\ Idle(t)
    /\ LET phase == start_shrinking_if_necessary(t)
       IN  IF ~phase.ok
           THEN /\ Return(t, "release_all", "NotGrowing")
                /\ UNCHANGED <<growing, shrinking>>
           ELSE /\ growing' = phase.growing
                /\ shrinking' = phase.shrinking
                /\ pc' = [pc EXCEPT ![t] = "release_all"]
                /\ lock_set_snap' =
                       [lock_set_snap EXCEPT ![t] = lock_set(resources, t)]
                /\ returned' = <<>>
                /\ UNCHANGED <<requests, req_idx>>
    /\ UNCHANGED <<resources, issued>>

\* the orders a HashSet of resources may be walked in
Orderings(set) ==
    {seq \in [1..Cardinality(set) -> set] :
        \A i, j \in 1..Cardinality(set) : i # j => seq[i] # seq[j]}

\* LockTable::release_all_locks: release_lock_internal over the snapshot
release_all_locks_release(t) ==
    /\ pc[t] = "release_all"
    /\ \E lock_list \in Orderings(lock_set_snap[t]) :
           LET rel == release_lock_internal(resources, t, lock_list)
           IN  /\ resources' = rel.table
               /\ IF rel.status = "Panic" THEN Panic(t, "release_all")
                  ELSE Return(t, "release_all", rel.status)
    /\ UNCHANGED <<growing, shrinking, issued>>

remove_all_pending_requests(t) ==
    /\ Idle(t)
    /\ resources' = [r \in DOMAIN resources |-> retain_requests(resources[r], t)]
    /\ Return(t, "remove_pending", "Ok")
    /\ UNCHANGED <<growing, shrinking, issued>>

\* CentralService::finalize_transaction up to the lock_set of its release_all_locks
finalize_transaction(t) ==
    /\ Idle(t)
    /\ IF ~transaction_exists(t)
       THEN Return(t, "finalize", "Error")
       ELSE /\ pc' = [pc EXCEPT ![t] = "finalize"]
            /\ lock_set_snap' = [lock_set_snap EXCEPT ![t] = lock_set(resources, t)]
            /\ returned' = <<>>
            /\ UNCHANGED <<requests, req_idx>>
    /\ UNCHANGED <<resources, growing, shrinking, issued>>

\* CentralService::release_all_locks: one release_lock of the held resources
finalize_release_lock(t, r) ==
    /\ pc[t] = "finalize"
    /\ r \in lock_set_snap[t]
    /\ ReleaseLockBody(t, r, "finalize")
    /\ UNCHANGED issued

\* LockTable::finalize_transaction, after the held resources are released
finalize_remove(t) ==
    /\ pc[t] = "finalize"
    /\ lock_set_snap[t] = {}
    /\ IF ~is_shrinking(t)
       THEN /\ Return(t, "finalize", "NotShrinking")
            /\ UNCHANGED shrinking
       ELSE /\ shrinking' = shrinking \ {t}
            /\ Return(t, "finalize", "Ok")
    /\ UNCHANGED <<resources, growing, issued>>

-----------------------------------------------------------------------------
(* The grants: what the Ok returns of acquire_locks have given a transaction *)
(* and the transaction has not given back.                                   *)

named_in_head(table, t, r) ==
    /\ r \in DOMAIN table
    /\ table[r] # <<>>
    /\ is_locked_by(table[r][1], t)

requested_mode(batch, r) ==
    IF \E i \in 1..Len(batch) : batch[i].record = r /\ batch[i].mode = "Exclusive"
    THEN "Exclusive"
    ELSE IF \E i \in 1..Len(batch) : batch[i].record = r THEN "Shared" ELSE "none"

\* the step of t: an Ok return of acquire_locks grants what its batch asked
\* for; a step of t that takes t out of the front lock of r (release_lock,
\* release_all_locks, remove_all_pending_requests) gives r back, and so does
\* the Ok return of finalize_transaction
Grants(t) ==
    granted' = [granted EXCEPT ![t] = [r \in Resources |->
        IF returned' = <<t, "acquire", "Ok">> /\ requested_mode(requests[t], r) # "none"
        THEN IF granted[t][r] = "Exclusive" THEN "Exclusive"
             ELSE requested_mode(requests[t], r)
        ELSE IF \/ returned' = <<t, "finalize", "Ok">>
                \/ named_in_head(resources, t, r) /\ ~named_in_head(resources', t, r)
             THEN "none"
             ELSE granted[t][r]]]

NoGrants == UNCHANGED granted

\* a step of the lock table: no task of the id generator or of the live
\* transaction set moves, no site registers and nothing is replicated
NoTasks == UNCHANGED <<task_vars, pool_vars, tool_vars>>

-----------------------------------------------------------------------------
Init ==
    /\ resources = <<>>
    /\ growing = {}
    /\ shrinking = {}
    /\ issued = {}
    /\ pc = [t \in Transactions |-> "idle"]
    /\ requests = [t \in Transactions |-> <<>>]
    /\ req_idx = [t \in Transactions |-> 0]
    /\ lock_set_snap = [t \in Transactions |-> {}]
    /\ returned = <<>>
    /\ granted = [t \in Transactions |-> [r \in Resources |-> "none"]]
    /\ sites = <<>>
    /\ task = <<>>
    /\ outcome = <<>>
    /\ connections = {}
    /\ replicated = {}
    /\ finalize_mode = [t \in Transactions |-> "none"]
    /\ input = <<>>
    /\ output = [op |-> "none"]

\* two transactions, batches of up to MaxBatch requests, every call
Pair == {"t1", "t2"}

Next ==
    \/ \E t \in Pair : register_transaction(t) /\ NoGrants /\ NoTasks
    \/ \E t \in Pair, b \in Batches : acquire_locks(t, b) /\ NoGrants /\ NoTasks
    \/ \E t \in Pair : add_new_resource(t) /\ NoGrants /\ NoTasks
    \/ \E t \in Pair : acquire_locks_request(t) /\ NoGrants /\ NoTasks
    \/ \E t \in Pair : enqueue_resource(t) /\ NoGrants /\ NoTasks
    \/ \E t \in Pair : acquire_locks_wait(t) /\ NoGrants /\ NoTasks
    \/ \E t \in Pair, r \in Resources : release_lock(t, r) /\ NoGrants /\ NoTasks
    \/ \E t \in Pair : release_all_locks(t) /\ NoGrants /\ NoTasks
    \/ \E t \in Pair : release_all_locks_release(t) /\ NoGrants /\ NoTasks
    \/ \E t \in Pair : remove_all_pending_requests(t) /\ NoGrants /\ NoTasks
    \/ \E t \in Pair : finalize_transaction(t) /\ NoGrants /\ NoTasks
    \/ \E t \in Pair, r \in Resources : finalize_release_lock(t, r) /\ NoGrants /\ NoTasks
    \/ \E t \in Pair : finalize_remove(t) /\ NoGrants /\ NoTasks

Spec == Init /\ [][Next]_vars

\* two transactions, batches of one request, every call, the grants recorded
SingleRequests == [1..1 -> LockRequests]

GrantNext ==
    \/ \E t \in Pair : register_transaction(t) /\ Grants(t) /\ NoTasks
    \/ \E t \in Pair, b \in SingleRequests : acquire_locks(t, b) /\ Grants(t) /\ NoTasks
    \/ \E t \in Pair : add_new_resource(t) /\ Grants(t) /\ NoTasks
    \/ \E t \in Pair : acquire_locks_request(t) /\ Grants(t) /\ NoTasks
    \/ \E t \in Pair : enqueue_resource(t) /\ Grants(t) /\ NoTasks
    \/ \E t \in Pair : acquire_locks_wait(t) /\ Grants(t) /\ NoTasks
    \/ \E t \in Pair, r \in Resources : release_lock(t, r) /\ Grants(t) /\ NoTasks
    \/ \E t \in Pair : release_all_locks(t) /\ Grants(t) /\ NoTasks
    \/ \E t \in Pair : release_all_locks_release(t) /\ Grants(t) /\ NoTasks
    \/ \E t \in Pair : remove_all_pending_requests(t) /\ Grants(t) /\ NoTasks
    \/ \E t \in Pair : finalize_transaction(t) /\ Grants(t) /\ NoTasks
    \/ \E t \in Pair, r \in Resources : finalize_release_lock(t, r) /\ Grants(t) /\ NoTasks
    \/ \E t \in Pair : finalize_remove(t) /\ Grants(t) /\ NoTasks

GrantSpec == Init /\ [][GrantNext]_vars

\* three transactions that register and acquire, batches of one request
TrioNext ==
    \/ \E t \in Transactions : register_transaction(t) /\ NoGrants /\ NoTasks
    \/ \E t \in Transactions, b \in SingleRequests : acquire_locks(t, b) /\ NoGrants /\ NoTasks
    \/ \E t \in Transactions : add_new_resource(t) /\ NoGrants /\ NoTasks
    \/ \E t \in Transactions : acquire_locks_request(t) /\ NoGrants /\ NoTasks
    \/ \E t \in Transactions : enqueue_resource(t) /\ NoGrants /\ NoTasks
    \/ \E t \in Transactions : acquire_locks_wait(t) /\ NoGrants /\ NoTasks

TrioSpec == Init /\ [][TrioNext]_vars

\* three transactions on one resource, batches of up to MaxBatch requests,
\* every call of the lock table
OneResourceBatches ==
    {b \in Batches : \A i \in 1..Len(b) : b[i].record = "A"}

QueueNext ==
    \/ \E t \in Transactions : register_transaction(t) /\ NoGrants /\ NoTasks
    \/ \E t \in Transactions, b \in OneResourceBatches : acquire_locks(t, b) /\ NoGrants /\ NoTasks
    \/ \E t \in Transactions : add_new_resource(t) /\ NoGrants /\ NoTasks
    \/ \E t \in Transactions : acquire_locks_request(t) /\ NoGrants /\ NoTasks
    \/ \E t \in Transactions : enqueue_resource(t) /\ NoGrants /\ NoTasks
    \/ \E t \in Transactions : acquire_locks_wait(t) /\ NoGrants /\ NoTasks
    \/ \E t \in Transactions : release_lock(t, "A") /\ NoGrants /\ NoTasks
    \/ \E t \in Transactions : release_all_locks(t) /\ NoGrants /\ NoTasks
    \/ \E t \in Transactions : release_all_locks_release(t) /\ NoGrants /\ NoTasks
    \/ \E t \in Transactions : remove_all_pending_requests(t) /\ NoGrants /\ NoTasks

QueueSpec == Init /\ [][QueueNext]_vars

\* optimize_lock_queue on its own: any queue of up to MaxLen locks over the
\* transactions, coalesced in place
MaxLen == 3

Orders ==
    {o \in UNION {[1..n -> Transactions] : n \in 1..Cardinality(Transactions)} :
        \A i, j \in 1..Len(o) : i # j => o[i] # o[j]}

Locks ==
    {exclusive(t) : t \in Transactions}
        \cup {[kind |-> "Shared", owners |-> {o[i] : i \in 1..Len(o)}, order |-> o]
              : o \in Orders}

LockQueues == UNION {[1..n -> Locks] : n \in 0..MaxLen}

OptInit ==
    /\ resources \in {[r \in {"A"} |-> q] : q \in LockQueues}
    /\ growing = {}
    /\ shrinking = {}
    /\ issued = {}
    /\ pc = [t \in Transactions |-> "idle"]
    /\ requests = [t \in Transactions |-> <<>>]
    /\ req_idx = [t \in Transactions |-> 0]
    /\ lock_set_snap = [t \in Transactions |-> {}]
    /\ returned = <<>>
    /\ granted = [t \in Transactions |-> [r \in Resources |-> "none"]]
    /\ sites = <<>>
    /\ task = <<>>
    /\ outcome = <<>>
    /\ connections = {}
    /\ replicated = {}
    /\ finalize_mode = [t \in Transactions |-> "none"]
    /\ input = <<>>
    /\ output = [op |-> "none"]

optimize(r) ==
    /\ r \in DOMAIN resources
    /\ resources' = with_queue(resources, r, optimize_lock_queue(resources[r]))
    /\ returned' = <<"none", "optimize", "Ok">>
    /\ UNCHANGED <<growing, shrinking, issued, pc, requests, req_idx, lock_set_snap,
                   granted, task_vars, pool_vars, tool_vars>>

OptNext == \E r \in Resources : optimize(r)

OptSpec == OptInit /\ [][OptNext]_vars

\* two transactions that register, acquire and finalize, every batch one
\* request on each of two resources; the call in flight of a transaction is
\* a task the runtime keeps scheduling
TwoResourceBatches ==
    {b \in [1..2 -> LockRequests] : b[1].record # b[2].record}

LiveNext ==
    \/ \E t \in Pair : register_transaction(t) /\ NoGrants /\ NoTasks
    \/ \E t \in Pair, b \in TwoResourceBatches : acquire_locks(t, b) /\ NoGrants /\ NoTasks
    \/ \E t \in Pair : add_new_resource(t) /\ NoGrants /\ NoTasks
    \/ \E t \in Pair : acquire_locks_request(t) /\ NoGrants /\ NoTasks
    \/ \E t \in Pair : enqueue_resource(t) /\ NoGrants /\ NoTasks
    \/ \E t \in Pair : acquire_locks_wait(t) /\ NoGrants /\ NoTasks
    \/ \E t \in Pair : finalize_transaction(t) /\ NoGrants /\ NoTasks
    \/ \E t \in Pair, r \in Resources : finalize_release_lock(t, r) /\ NoGrants /\ NoTasks
    \/ \E t \in Pair : finalize_remove(t) /\ NoGrants /\ NoTasks

\* the next step of the call in flight of t
TaskStep(t) ==
    /\ \/ add_new_resource(t)
       \/ acquire_locks_request(t)
       \/ enqueue_resource(t)
       \/ acquire_locks_wait(t)
       \/ \E r \in Resources : finalize_release_lock(t, r)
       \/ finalize_remove(t)
    /\ NoGrants /\ NoTasks

LiveSpec ==
    /\ Init
    /\ [][LiveNext]_vars
    /\ \A t \in Pair : WF_vars(TaskStep(t))

-----------------------------------------------------------------------------
(* TransactionIdGenerator, one acquisition of the RwLock of sites a step:   *)
(* add_new_site reads contains_key under a read lock and inserts under a    *)
(* write lock it takes afterwards; next_trans_id then gets the counter and  *)
(* fetch_adds it under a read lock.                                         *)

\* the tasks that call concurrently
Tasks == {"c1", "c2", "c3"}

SiteIds == {0, 1}

\* calls the tasks start in a run
MaxCalls == 4

\* no call in flight; local is what the call in flight last read under a lock
IdleTask == [at |-> "idle", op |-> "none", arg |-> "none", local |-> FALSE]

CallsStarted == Len(outcome) + Cardinality({c \in Tasks : task[c].at # "idle"})

\* the call of task c returns
TaskReturn(c, status) ==
    /\ outcome' = Append(outcome, [task |-> c, op |-> task[c].op,
                                   arg |-> task[c].arg, status |-> status])
    /\ task' = [task EXCEPT ![c] = IdleTask]

\* next_trans_id up to the contains_key of add_new_site
add_new_site_contains_key(c, site_id) ==
    /\ task[c].at = "idle"
    /\ CallsStarted < MaxCalls
    /\ LET exists == site_id \in DOMAIN sites
       IN  task' = [task EXCEPT ![c] = [at |-> IF exists THEN "fetch_add" ELSE "insert",
                                        op |-> "next_trans_id", arg |-> site_id,
                                        local |-> exists]]
    /\ UNCHANGED <<sites, outcome, growing, shrinking, lock_vars, pool_vars, tool_vars>>

\* add_new_site: HashMap::insert of a counter at 0, in place of the one there
add_new_site_insert(c) ==
    /\ task[c].at = "insert"
    /\ sites' = [s \in DOMAIN sites \cup {task[c].arg} |->
                    IF s = task[c].arg THEN 0 ELSE sites[s]]
    /\ task' = [task EXCEPT ![c].at = "fetch_add"]
    /\ UNCHANGED <<outcome, growing, shrinking, lock_vars, pool_vars, tool_vars>>

\* next_trans_id: get the counter of the site and fetch_add(1)
next_trans_id_fetch_add(c) ==
    /\ task[c].at = "fetch_add"
    /\ sites' = [sites EXCEPT ![task[c].arg] = sites[task[c].arg] + 1]
    /\ TaskReturn(c, sites[task[c].arg])
    /\ UNCHANGED <<growing, shrinking, lock_vars, pool_vars, tool_vars>>

IdInit ==
    /\ resources = <<>>
    /\ growing = {}
    /\ shrinking = {}
    /\ issued = {}
    /\ pc = [t \in Transactions |-> "idle"]
    /\ requests = [t \in Transactions |-> <<>>]
    /\ req_idx = [t \in Transactions |-> 0]
    /\ lock_set_snap = [t \in Transactions |-> {}]
    /\ returned = <<>>
    /\ granted = [t \in Transactions |-> [r \in Resources |-> "none"]]
    /\ sites = <<>>
    /\ task = [c \in Tasks |-> IdleTask]
    /\ outcome = <<>>
    /\ connections = {}
    /\ replicated = {}
    /\ finalize_mode = [t \in Transactions |-> "none"]
    /\ input = <<>>
    /\ output = [op |-> "none"]

IdNext ==
    \/ \E c \in Tasks, site_id \in SiteIds : add_new_site_contains_key(c, site_id)
    \/ \E c \in Tasks : add_new_site_insert(c)
    \/ \E c \in Tasks : next_trans_id_fetch_add(c)

IdSpec == IdInit /\ [][IdNext]_vars

-----------------------------------------------------------------------------
(* LiveTransactionSet, one acquisition of the RwLock of growing or of        *)
(* shrinking a step: every call reads under read locks first and writes     *)
(* under write locks it takes afterwards.                                    *)

\* a call of task c enters and stands at `at`, with what it read in local
Enter(c, op, trans, at, local) ==
    /\ task[c].at = "idle"
    /\ CallsStarted < MaxCalls
    /\ task' = [task EXCEPT ![c] = [at |-> at, op |-> op, arg |-> trans,
                                    local |-> local]]
    /\ UNCHANGED outcome

\* the call of an idle task c returns on its first read
EnterReturn(c, op, trans, status) ==
    /\ task[c].at = "idle"
    /\ CallsStarted < MaxCalls
    /\ outcome' = Append(outcome, [task |-> c, op |-> op, arg |-> trans,
                                   status |-> status])
    /\ UNCHANGED task

\* register_transaction: transaction_exists reads growing
register_is_growing(c, trans) ==
    /\ Enter(c, "register", trans, "is_shrinking", trans \in growing)
    /\ UNCHANGED <<sites, growing, shrinking, lock_vars, pool_vars, tool_vars>>

\* register_transaction: transaction_exists reads shrinking and answers
register_is_shrinking(c) ==
    /\ task[c].at = "is_shrinking"
    /\ IF task[c].local \/ task[c].arg \in shrinking
       THEN TaskReturn(c, "AlreadyExists")
       ELSE /\ task' = [task EXCEPT ![c].at = "insert_growing"]
            /\ UNCHANGED outcome
    /\ UNCHANGED <<sites, growing, shrinking, lock_vars, pool_vars, tool_vars>>

\* register_transaction: growing.write().insert
register_insert(c) ==
    /\ task[c].at = "insert_growing"
    /\ growing' = growing \cup {task[c].arg}
    /\ TaskReturn(c, "Ok")
    /\ UNCHANGED <<sites, shrinking, lock_vars, pool_vars, tool_vars>>

\* start_shrinking: is_growing
start_shrinking_is_growing(c, trans) ==
    /\ IF trans \in growing
       THEN Enter(c, "start_shrinking", trans, "remove_growing", TRUE)
       ELSE EnterReturn(c, "start_shrinking", trans, "NotGrowing")
    /\ UNCHANGED <<sites, growing, shrinking, lock_vars, pool_vars, tool_vars>>

\* start_shrinking: growing.write().remove
start_shrinking_remove(c) ==
    /\ task[c].at = "remove_growing"
    /\ growing' = growing \ {task[c].arg}
    /\ task' = [task EXCEPT ![c].at = "insert_shrinking"]
    /\ UNCHANGED <<sites, outcome, shrinking, lock_vars, pool_vars, tool_vars>>

\* start_shrinking: shrinking.write().insert
start_shrinking_insert(c) ==
    /\ task[c].at = "insert_shrinking"
    /\ shrinking' = shrinking \cup {task[c].arg}
    /\ TaskReturn(c, "Ok")
    /\ UNCHANGED <<sites, growing, lock_vars, pool_vars, tool_vars>>

\* remove: is_shrinking
remove_is_shrinking(c, trans) ==
    /\ IF trans \in shrinking
       THEN Enter(c, "remove", trans, "remove_shrinking", TRUE)
       ELSE EnterReturn(c, "remove", trans, "NotShrinking")
    /\ UNCHANGED <<sites, growing, shrinking, lock_vars, pool_vars, tool_vars>>

\* remove: shrinking.write().remove
remove_remove(c) ==
    /\ task[c].at = "remove_shrinking"
    /\ shrinking' = shrinking \ {task[c].arg}
    /\ TaskReturn(c, "Ok")
    /\ UNCHANGED <<sites, growing, lock_vars, pool_vars, tool_vars>>

SetNext ==
    \/ \E c \in Tasks, trans \in Pair : register_is_growing(c, trans)
    \/ \E c \in Tasks : register_is_shrinking(c)
    \/ \E c \in Tasks : register_insert(c)
    \/ \E c \in Tasks, trans \in Pair : start_shrinking_is_growing(c, trans)
    \/ \E c \in Tasks : start_shrinking_remove(c)
    \/ \E c \in Tasks : start_shrinking_insert(c)
    \/ \E c \in Tasks, trans \in Pair : remove_is_shrinking(c, trans)
    \/ \E c \in Tasks : remove_remove(c)

SetSpec == IdInit /\ [][SetNext]_vars

-----------------------------------------------------------------------------
(* The central service with its connection pool: sites register, and a      *)
(* FinalizeTransactionRequest carries a finalize mode and an update         *)
(* history.                                                                 *)

FinalizeModes == {"Commit", "Abort"}

\* TransactionId.site_id: the site a transaction comes from
site_of == [t \in Transactions |-> IF t = "t2" THEN 1 ELSE 0]

\* ConnectionPool::register_site: the next site id, entered in the map
register_site ==
    /\ Cardinality(connections) < Cardinality(SiteIds)
    /\ connections' = connections \cup {Cardinality(connections)}
    /\ UNCHANGED <<replicated, finalize_mode, task_vars, tool_vars, growing, shrinking,
                   lock_vars>>

\* ConnectionPool::replicate_sites: the updates a call that meets no error
\* sends, one to every site of the pool but the originating one
replicate_sites(pool, originating_site) ==
    {<<site_id, originating_site>> : site_id \in pool \ {originating_site}}

\* CentralService::finalize_transaction on a request with a finalize mode:
\* the handler reads site_id and transaction_id of the request and nothing else
finalize_transaction_request(t, mode) ==
    /\ finalize_transaction(t)
    /\ finalize_mode' = [finalize_mode EXCEPT ![t] = mode]
    /\ UNCHANGED <<connections, replicated, task_vars, tool_vars>>

CommitNext ==
    \/ register_site /\ NoGrants
    \/ \E t \in Pair : register_transaction(t) /\ NoGrants /\ NoTasks
    \/ \E t \in Pair, b \in SingleRequests : acquire_locks(t, b) /\ NoGrants /\ NoTasks
    \/ \E t \in Pair : add_new_resource(t) /\ NoGrants /\ NoTasks
    \/ \E t \in Pair : acquire_locks_request(t) /\ NoGrants /\ NoTasks
    \/ \E t \in Pair : enqueue_resource(t) /\ NoGrants /\ NoTasks
    \/ \E t \in Pair : acquire_locks_wait(t) /\ NoGrants /\ NoTasks
    \/ \E t \in Pair, mode \in FinalizeModes :
           finalize_transaction_request(t, mode) /\ NoGrants
    \/ \E t \in Pair, r \in Resources : finalize_release_lock(t, r) /\ NoGrants /\ NoTasks
    \/ \E t \in Pair : finalize_remove(t) /\ NoGrants /\ NoTasks

CommitSpec == Init /\ [][CommitNext]_vars

-----------------------------------------------------------------------------
(* The LockRequestResult of a call of acquire_locks that returns: the wait  *)
(* loop breaks with AcquiredLock, the request loop returns Deadlocked, and  *)
(* the returns of HadLock and PromotedLock are `continue` statements.       *)

LockRequestResult(status) == IF status = "Ok" THEN "AcquiredLock" ELSE status

-----------------------------------------------------------------------------
(* The history verifier: main reads the history files, sorts the actions    *)
(* chronologically and hands them to verify_action_history; ConflictGraph   *)
(* builds the conflict graph of the actions and detects its cycles.         *)

Tables == {"R", "W"}

\* longest history
MaxLog == 4

\* ActionKind: the queries read one table or write one table
ActionKinds ==
    {[kind |-> k, read_set |-> {}, write_set |-> {}] :
        k \in {"BeginTransaction", "CommitTransaction", "RollbackTransaction"}}
    \cup {[kind |-> "Query", read_set |-> {tb}, write_set |-> {}] : tb \in Tables}
    \cup {[kind |-> "Query", read_set |-> {}, write_set |-> {tb}] : tb \in Tables}

\* Action, in chronological order in a history
Actions == [transaction_id : Transactions, action : ActionKinds]

Histories == UNION {[1..n -> Actions] : n \in 0..MaxLog}

\* TableSets::conflicts_with_other
conflicts_with_other(self, other) ==
    \/ self.read_set \cap other.write_set # {}
    \/ self.write_set \cap other.read_set # {}
    \/ self.write_set \cap other.write_set # {}

\* LiveTransactions: a map with the entry of a transaction put or removed
live_insert(live, transaction_id, table_sets) ==
    [t \in DOMAIN live \cup {transaction_id} |->
        IF t = transaction_id THEN table_sets ELSE live[t]]

live_remove(live, transaction_id) ==
    [t \in DOMAIN live \ {transaction_id} |-> live[t]]

\* LiveTransactions::has_conflicts: the unordered pairs of live transactions
\* whose table sets conflict
has_conflicts(live) ==
    {pair \in SUBSET DOMAIN live :
        /\ Cardinality(pair) = 2
        /\ \E left, right \in pair :
               left # right /\ conflicts_with_other(live[left], live[right])}

\* the live transactions after the match on the action of verify_action_history
live_after(live, act) ==
    LET id == act.transaction_id
    IN  IF act.action.kind = "BeginTransaction"
        THEN live_insert(live, id, [read_set |-> {}, write_set |-> {}])
        ELSE IF act.action.kind \in {"CommitTransaction", "RollbackTransaction"}
        THEN live_remove(live, id)
        ELSE IF id \notin DOMAIN live
        THEN live_insert(live, id, [read_set |-> act.action.read_set,
                                    write_set |-> act.action.write_set])
        ELSE live_insert(live, id,
                 [read_set |-> live[id].read_set \cup act.action.read_set,
                  write_set |-> live[id].write_set \cup act.action.write_set])

\* the loop of verify_action_history from action i on: all_conflicts
RECURSIVE verify_actions(_, _, _, _)
verify_actions(actions, i, live, all_conflicts) ==
    IF i > Len(actions) THEN all_conflicts
    ELSE LET act == actions[i]
             single_stmt == /\ act.action.kind = "Query"
                            /\ act.transaction_id \notin DOMAIN live
             checked == live_after(live, act)
             found == {[at |-> i, pair |-> pair] : pair \in has_conflicts(checked)}
         IN  verify_actions(actions, i + 1,
                 IF single_stmt THEN live_remove(checked, act.transaction_id)
                                ELSE checked,
                 all_conflicts \cup found)

\* verify_action_history: the conflicts of Err, {} for Ok
verify_action_history(actions) == verify_actions(actions, 1, <<>>, {})

\* main: the exit code of the process, Err of File::open or Ok(()) after the
\* match on the result of verify_action_history
main_exit_code(file) == IF ~file.opens THEN 1 ELSE 0

\* AssociatedActionMap::get_all_transaction_ids
get_all_transaction_ids(actions) ==
    {actions[i].transaction_id : i \in 1..Len(actions)}

\* AssociatedActionMap::get_transaction_range: the indices from the first to
\* the last action of the transaction
get_transaction_range(actions, transaction_id) ==
    LET own == {i \in 1..Len(actions) : actions[i].transaction_id = transaction_id}
    IN  {i \in 1..Len(actions) :
            /\ \E lo \in own : lo <= i
            /\ \E hi \in own : i <= hi}

\* ConflictGraph::build: the transactions a transaction has an edge to
build(actions) ==
    [outer_transaction_id \in get_all_transaction_ids(actions) |->
        LET transaction_range == get_transaction_range(actions, outer_transaction_id)
        IN  {actions[j].transaction_id : j \in
                {j \in transaction_range :
                    /\ actions[j].transaction_id # outer_transaction_id
                    /\ actions[j].action.kind = "Query"
                    /\ \E i \in transaction_range :
                           /\ i < j
                           /\ actions[i].transaction_id = outer_transaction_id
                           /\ actions[i].action.kind = "Query"
                           /\ conflicts_with_other(actions[i].action, actions[j].action)}}]

\* the ConflictType edges build pushes for an outer and an inner Query action
conflict_types(outer_action, inner_action) ==
    {edge \in {[kind |-> "ReadWrite",
                tables |-> outer_action.read_set \cap inner_action.write_set],
               [kind |-> "WriteRead",
                tables |-> outer_action.write_set \cap inner_action.read_set],
               [kind |-> "WriteWrite",
                tables |-> outer_action.write_set \cap inner_action.write_set]} :
        edge.tables # {}}

\* ConflictGraph::build with add_edge: every edge pushed, with the positions
\* of its two actions in the history
build_edges(actions) ==
    UNION {
        LET transaction_range == get_transaction_range(actions, outer_transaction_id)
        IN  UNION {UNION {
                {[causing |-> outer_transaction_id,
                  conflicting |-> actions[j].transaction_id,
                  outer |-> i, inner |-> j,
                  kind |-> edge.kind, tables |-> edge.tables] :
                    edge \in conflict_types(actions[i].action, actions[j].action)} :
                j \in {j \in transaction_range :
                          /\ i < j
                          /\ actions[j].transaction_id # outer_transaction_id
                          /\ actions[j].action.kind = "Query"}} :
                i \in {i \in transaction_range :
                          /\ actions[i].transaction_id = outer_transaction_id
                          /\ actions[i].action.kind = "Query"}} :
        outer_transaction_id \in get_all_transaction_ids(actions)}

\* ConflictGraph::dfs, with the recursion stack kept as the path
RECURSIVE dfs(_, _, _)
RECURSIVE dfs_neighbors(_, _, _, _)

dfs(graph, current, st) ==
    IF \E k \in 1..Len(st.path) : st.path[k] = current
    THEN LET start_index == CHOOSE k \in 1..Len(st.path) : st.path[k] = current
         IN  [st EXCEPT !.cycles = Append(@, SubSeq(st.path, start_index, Len(st.path)))]
    ELSE IF current \notin st.visited
    THEN LET entered == [visited |-> st.visited \cup {current},
                         path |-> Append(st.path, current),
                         cycles |-> st.cycles]
             left == dfs_neighbors(graph, current, 1, entered)
         IN  [left EXCEPT !.path = SubSeq(@, 1, Len(@) - 1)]
    ELSE st

dfs_neighbors(graph, current, k, st) ==
    IF k > Len(TransactionOrder) THEN st
    ELSE dfs_neighbors(graph, current, k + 1,
             IF TransactionOrder[k] \in graph[current]
             THEN dfs(graph, TransactionOrder[k], st) ELSE st)

\* ConflictGraph::find_cycles: a dfs from every node not visited yet, the
\* nodes taken in the order the HashMap of node ids yields them
RECURSIVE find_cycles(_, _, _, _)
find_cycles(graph, node_ids, k, st) ==
    IF k > Len(node_ids) THEN st.cycles
    ELSE find_cycles(graph, node_ids, k + 1,
             IF node_ids[k] \notin st.visited THEN dfs(graph, node_ids[k], st) ELSE st)

detect_cycles(graph, node_ids) ==
    find_cycles(graph, node_ids, 1, [visited |-> {}, path |-> <<>>, cycles |-> <<>>])

HistoryInit ==
    /\ resources = <<>>
    /\ growing = {}
    /\ shrinking = {}
    /\ issued = {}
    /\ pc = [t \in Transactions |-> "idle"]
    /\ requests = [t \in Transactions |-> <<>>]
    /\ req_idx = [t \in Transactions |-> 0]
    /\ lock_set_snap = [t \in Transactions |-> {}]
    /\ returned = <<>>
    /\ granted = [t \in Transactions |-> [r \in Resources |-> "none"]]
    /\ sites = <<>>
    /\ task = <<>>
    /\ outcome = <<>>
    /\ connections = {}
    /\ replicated = {}
    /\ finalize_mode = [t \in Transactions |-> "none"]
    /\ input \in {[opens |-> TRUE, actions |-> h] : h \in Histories}
                 \cup {[opens |-> FALSE, actions |-> <<>>]}
    /\ output = [op |-> "none"]

\* a run of the history verifier on the files
main ==
    /\ output.op = "none"
    /\ output' = [op |-> "main",
                  exit_code |-> main_exit_code(input),
                  conflicts |-> IF input.opens
                                THEN verify_action_history(input.actions) ELSE {}]
    /\ UNCHANGED <<input, growing, shrinking, lock_vars, task_vars, pool_vars>>

\* the conflict graph of the history built and searched for cycles
conflict_graph_cycles ==
    /\ output.op = "none"
    /\ input.opens
    /\ \E node_ids \in Orderings(get_all_transaction_ids(input.actions)) :
           output' = [op |-> "detect_cycles",
                      cycles |-> detect_cycles(build(input.actions), node_ids)]
    /\ UNCHANGED <<input, growing, shrinking, lock_vars, task_vars, pool_vars>>

HistoryNext ==
    \/ main
    \/ conflict_graph_cycles

HistorySpec == HistoryInit /\ [][HistoryNext]_vars

-----------------------------------------------------------------------------
(* split_stmts_into_transactions of sql_metadata: the statements of a       *)
(* script grouped into transactions.                                        *)

\* longest statement list
MaxStmts == 4

Statements == {"BEGIN", "COMMIT", "ROLLBACK", "SELECT * FROM STUDENTS", "SELEC"}

StatementLists == UNION {[1..n -> Statements] : n \in 0..MaxStmts}

\* parse_transaction_stmt: the kind of a transaction statement, "None" for
\* another statement, "Err" when the sql does not parse
parse_transaction_stmt(sql) ==
    IF sql = "BEGIN" THEN "Begin"
    ELSE IF sql = "COMMIT" THEN "Commit"
    ELSE IF sql = "ROLLBACK" THEN "Rollback"
    ELSE IF sql = "SELEC" THEN "Err"
    ELSE "None"

classify_transaction_stmt(sql) ==
    LET trans_stmt == parse_transaction_stmt(sql)
    IN  IF trans_stmt = "Err" THEN "Err"
        ELSE IF trans_stmt = "None" THEN "Normal"
        ELSE IF trans_stmt = "Begin" THEN "Open"
        ELSE "Close"

\* Vec::last_mut().unwrap().push(stmt)
push_to_last(transactions, stmt) ==
    [transactions EXCEPT ![Len(transactions)] = Append(@, stmt)]

\* the loop of split_stmts_into_transactions from statement i on
RECURSIVE split_loop(_, _, _, _)
split_loop(stmts, i, transactions, has_transaction) ==
    IF i > Len(stmts) THEN [status |-> "Ok", transactions |-> transactions]
    ELSE LET stmt == stmts[i]
             mode == classify_transaction_stmt(stmt)
         IN  IF mode = "Err" THEN [status |-> "Err", transactions |-> <<>>]
             ELSE IF mode = "Open"
             THEN split_loop(stmts, i + 1, Append(transactions, <<stmt>>), TRUE)
             ELSE IF mode = "Normal"
             THEN IF has_transaction
                  THEN split_loop(stmts, i + 1, push_to_last(transactions, stmt), TRUE)
                  ELSE split_loop(stmts, i + 1, Append(transactions, <<stmt>>), FALSE)
             ELSE IF transactions = <<>>
                  THEN [status |-> "Panic", transactions |-> <<>>]
                  ELSE split_loop(stmts, i + 1, push_to_last(transactions, stmt), FALSE)

split_stmts_into_transactions(stmts) == split_loop(stmts, 1, <<>>, FALSE)

SplitInit ==
    /\ resources = <<>>
    /\ growing = {}
    /\ shrinking = {}
    /\ issued = {}
    /\ pc = [t \in Transactions |-> "idle"]
    /\ requests = [t \in Transactions |-> <<>>]
    /\ req_idx = [t \in Transactions |-> 0]
    /\ lock_set_snap = [t \in Transactions |-> {}]
    /\ returned = <<>>
    /\ granted = [t \in Transactions |-> [r \in Resources |-> "none"]]
    /\ sites = <<>>
    /\ task = <<>>
    /\ outcome = <<>>
    /\ connections = {}
    /\ replicated = {}
    /\ finalize_mode = [t \in Transactions |-> "none"]
    /\ input \in StatementLists
    /\ output = [op |-> "none"]

split ==
    /\ output.op = "none"
    /\ LET result == split_stmts_into_transactions(input)
       IN  output' = [op |-> "split", status |-> result.status,
                      transactions |-> result.transactions]
    /\ UNCHANGED <<input, growing, shrinking, lock_vars, task_vars, pool_vars>>

SplitNext == split

SplitSpec == SplitInit /\ [][SplitNext]_vars

-----------------------------------------------------------------------------
(* C1: mutual exclusion.  In every reachable state, a transaction that has  *)
(* been granted an Exclusive lock on a resource and has not given it back   *)
(* is the only transaction with a granted lock of any mode on the resource. *)
C1_MutualExclusion ==
    \A t \in Transactions, r \in Resources :
        granted[t][r] = "Exclusive" =>
            \A u \in Transactions \ {t} : granted[u][r] = "none"

(* C2: the front lock names the owners.  A transaction that has been        *)
(* granted a lock on a resource stays named in the front lock of the        *)
(* resource's queue until it gives the lock back itself.                    *)
C2_HeadNamesOwners ==
    \A t \in Transactions, r \in Resources :
        granted[t][r] # "none" => named_in_head(resources, t, r)

(* C3: no wait-for cycle.  In every reachable state the wait-for graph      *)
(* derived from the queues has no cycle, whatever the interleaving of the   *)
(* acquire_locks calls.                                                     *)
C3_NoWaitForCycle == ~has_cycle(construct(resources))

\* the nodes a walk of one or more edges from a node of `from` can reach
RECURSIVE reachable(_, _)
reachable(graph, from) ==
    LET next == from \cup UNION {graph[u] : u \in from \cap DOMAIN graph}
    IN  IF next = from THEN from ELSE reachable(graph, next)

on_cycle(graph, t) == t \in DOMAIN graph /\ t \in reachable(graph, graph[t])

(* C4: acquire_locks returns Deadlocked for a request of t on r only if the *)
(* wait-for graph of the queues, with the edges from t to every owner of    *)
(* every lock in the queue of r added, has a cycle that passes through t.   *)
C4_DeadlockedOnlyOnOwnCycle ==
    [][\A t \in Transactions :
          (pc[t] = "request" /\ returned' = <<t, "acquire", "Deadlocked">>) =>
              on_cycle(insert_edges(construct(resources), t,
                           queue_owners(resources[CurrentRequest(t).record])), t)]_vars

(* C5: when acquire_locks returns Ok, every request of its batch is         *)
(* satisfied in the state it returns in: a Shared request has t named in    *)
(* the front lock, an Exclusive request has the front lock Exclusive{t}.    *)
C5_OkHoldsAllRequests ==
    [][\A t \in Transactions :
          returned' = <<t, "acquire", "Ok">> =>
              \A i \in 1..Len(requests[t]) :
                  /\ requests[t][i].record \in DOMAIN resources'
                  /\ holds_lock(resources', t, requests[t][i].record,
                                requests[t][i].mode)]_vars

\* an Ok return that leaves t1 with an Exclusive front lock it was promoted
\* to ahead of the Shared owner t2, and with a Shared front lock on B
C5_Witness ==
    /\ returned = <<"t1", "acquire", "Ok">>
    /\ DOMAIN resources = {"A", "B"}
    /\ resources["A"] = <<exclusive("t1"), shared("t2")>>
    /\ resources["B"] # <<>>
    /\ is_locked_by_shared(resources["B"][1], "t1")

named_in_queue(table, t) ==
    \E r \in DOMAIN table : t \in queue_owners(table[r])

(* C6: once finalize_transaction of t has returned Ok, t is named in no     *)
(* lock of any queue and is neither growing nor shrinking.                  *)
C6_FinalizedIsGone ==
    \A t \in Transactions :
        returned = <<t, "finalize", "Ok">> =>
            /\ ~named_in_queue(resources, t)
            /\ ~transaction_exists(t)

C10_NoAdjacentShared ==
    \A r \in DOMAIN resources :
        \A i \in 1..(Len(resources[r]) - 1) :
            ~(is_shared(resources[r][i]) /\ is_shared(resources[r][i + 1]))

(* C9: coalescing is idempotent.  For every queue, coalescing the coalesced *)
(* queue again gives the identical queue: the same locks with the same      *)
(* owners and the same order sequences.                                     *)
C9_OptimizeIdempotent ==
    returned = <<"none", "optimize", "Ok">> =>
        \A r \in DOMAIN resources :
            optimize_lock_queue(resources[r]) = resources[r]

\* a coalesced queue that came out of a split and a join
C9_Witness ==
    /\ returned = <<"none", "optimize", "Ok">>
    /\ resources["A"] =
           <<exclusive("t1"),
             [kind |-> "Shared", owners |-> {"t2", "t3"}, order |-> <<"t2", "t3">>]>>

AcquireReturned(t) ==
    returned \in {<<t, "acquire", "Ok">>, <<t, "acquire", "Deadlocked">>}

FinalizeCalled(t) ==
    \/ pc[t] = "finalize"
    \/ returned # <<>> /\ returned[1] = t /\ returned[2] = "finalize"

AcquireInFlight(t) == pc[t] \in {"request", "enqueue", "wait"}

(* C8: eventual progress.  With every task scheduled again and again, if    *)
(* every transaction whose acquire_locks has returned Ok or Deadlocked goes *)
(* on to call finalize_transaction, every acquire_locks call in flight      *)
(* eventually returns.                                                      *)
C8_EventualProgress ==
    (\A t \in Pair : [](AcquireReturned(t) => <>FinalizeCalled(t)))
        => \A t \in Pair : AcquireInFlight(t) ~> ~AcquireInFlight(t)


-----------------------------------------------------------------------------
(* C11: the ids are unique under concurrency.  Any two calls of             *)
(* next_trans_id for the same site return different transaction numbers,    *)
(* also when they run concurrently as the first calls for the site: no      *)
(* (site, transaction) pair is handed out twice.                            *)

C11_UniqueIds ==
    \A i, j \in 1..Len(outcome) :
        /\ i # j
        /\ outcome[i].op = "next_trans_id"
        /\ outcome[j].op = "next_trans_id"
        /\ outcome[i].arg = outcome[j].arg
        => outcome[i].status # outcome[j].status


-----------------------------------------------------------------------------
(* C12: growing and shrinking are disjoint in every reachable state of the  *)
(* live transaction set, under every interleaving of concurrent             *)
(* register_transaction, start_shrinking and remove calls.                  *)

C12_PhasesDisjoint == growing \cap shrinking = {}


-----------------------------------------------------------------------------
(* C13: register_transaction is linearizable.  It returns Ok only if the    *)
(* transaction is in neither growing nor shrinking at the point it takes    *)
(* effect, so of two register_transaction calls for the same transaction    *)
(* that return Ok the second comes after a remove of the transaction: two   *)
(* concurrent calls do not both return Ok.                                  *)

OkReturn(i, op) == outcome[i].op = op /\ outcome[i].status = "Ok"

C13_RegisterLinearizable ==
    \A i, j \in 1..Len(outcome) :
        /\ i < j
        /\ OkReturn(i, "register")
        /\ OkReturn(j, "register")
        /\ outcome[i].arg = outcome[j].arg
        => \E k \in (i + 1)..(j - 1) :
               OkReturn(k, "remove") /\ outcome[k].arg = outcome[i].arg

-----------------------------------------------------------------------------
(* C14: remove succeeds whatever the state of the transaction.  Every       *)
(* remove returns Ok, and when no other call is in flight it leaves the     *)
(* transaction in neither growing nor shrinking: register_transaction       *)
(* followed by remove leaves the set as it was before.                      *)

C14_RemoveAlwaysSucceeds ==
    [][LET n == Len(outcome')
       IN  (n > Len(outcome) /\ outcome'[n].op = "remove")
           => /\ outcome'[n].status = "Ok"
              /\ (\A c \in Tasks : task'[c].at = "idle")
                 => outcome'[n].arg \notin growing' \cup shrinking']_vars


-----------------------------------------------------------------------------
(* C15: finalize_transaction is idempotent.  A finalize_transaction of a    *)
(* transaction that has been finalized before returns Ok and leaves the     *)
(* queues and the live transaction set as they are, and a                   *)
(* finalize_transaction of a registered transaction that never acquired or  *)
(* released a lock returns Ok as well.                                      *)

FinalizeReturns(t) ==
    Len(returned') = 3 /\ returned'[1] = t /\ returned'[2] = "finalize"

C15_FinalizeIdempotent ==
    [][\A t \in Pair :
        /\ (FinalizeReturns(t) /\ t \in issued /\ ~transaction_exists(t))
           => returned'[3] = "Ok" /\ UNCHANGED <<resources, growing, shrinking>>
        /\ (FinalizeReturns(t) /\ t \in growing /\ ~named_in_queue(resources, t))
           => returned'[3] = "Ok"]_vars


-----------------------------------------------------------------------------
(* C16: on a finalize_transaction in Commit mode of a transaction of site   *)
(* s, the update history has been sent to every registered site other than  *)
(* s before a lock of the transaction is released or the call returns Ok,   *)
(* and is never sent to s itself; a finalize_transaction in Abort mode      *)
(* sends no replication update to any site.                                 *)

\* a step of the finalize_transaction of t that releases a lock or returns Ok
FinalizeReleases(t) ==
    /\ pc[t] = "finalize"
    /\ \/ resources' # resources /\ lock_set_snap'[t] # lock_set_snap[t]
       \/ returned' = <<t, "finalize", "Ok">>

C16_CommitFansOutFirst ==
    [][\A t \in Pair :
        /\ (FinalizeReleases(t) /\ finalize_mode[t] = "Commit")
           => replicate_sites(connections, site_of[t]) \subseteq replicated
        /\ (pc[t] = "finalize" /\ finalize_mode[t] = "Abort")
           => replicated' = replicated
        /\ \A s \in SiteIds : <<s, s>> \notin replicated']_vars


-----------------------------------------------------------------------------
(* C17: whatever the finalize mode and whatever step fails, a               *)
(* finalize_transaction of a live transaction ends with every lock of the   *)
(* transaction released and the transaction out of the live transaction     *)
(* set; a failure only changes the status returned.                         *)

C17_FinalizeAlwaysCleansUp ==
    [][\A t \in Pair :
        (pc[t] = "finalize" /\ FinalizeReturns(t) /\ returned'[3] # "Panic")
        => /\ lock_set(resources', t) = {}
           /\ t \notin growing' \cup shrinking']_vars


-----------------------------------------------------------------------------
(* C18: no panic.  No sequence of register_transaction, acquire_locks,      *)
(* release_lock, release_all_locks, remove_all_pending_requests and         *)
(* finalize_transaction calls drives the lock table into a panic: every     *)
(* error of a call is returned to the caller as an error value.             *)

C18_NoPanic == \A t \in Pair : pc[t] # "panicked"

-----------------------------------------------------------------------------
(* C19: a release_lock of a live transaction t on a resource r either finds *)
(* t named in the front lock of the queue of r, or returns NotOwned and     *)
(* leaves every queue as it is: so it does when t waits further back, when  *)
(* t is not in the queue and when r has no lock queued.                     *)

ReleaseReturns(t) ==
    Idle(t) /\ Len(returned') = 3 /\ returned'[1] = t /\ returned'[2] = "release"

C19_ReleaseNotAtHead ==
    [][\A t \in Pair :
        (ReleaseReturns(t) /\ transaction_exists(t))
        => \/ /\ returned'[3] = "NotOwned"
              /\ UNCHANGED resources
           \/ \E r \in DOMAIN resources :
                  /\ named_in_head(resources, t, r)
                  /\ \A q \in DOMAIN resources \ {r} : resources'[q] = resources[q]]_vars

-----------------------------------------------------------------------------
(* C20: acquire_locks works through the requests of its batch in            *)
(* LockRequest order: every Shared request before every Exclusive request   *)
(* and, among requests of one mode, in ascending order of the resource      *)
(* name, whatever order the caller listed them in.                          *)

\* ascending order of the resource names
name_before(a, b) == a = "A" /\ b = "B"

C20_BatchInLockRequestOrder ==
    \A t \in Pair : \A i, j \in 1..Len(requests[t]) :
        i < j => /\ requests[t][i].mode = "Exclusive"
                    => requests[t][j].mode = "Exclusive"
                 /\ requests[t][i].mode = requests[t][j].mode
                    => ~name_before(requests[t][j].record, requests[t][i].record)


-----------------------------------------------------------------------------
(* C21: promotion in place by a sole owner.  When the front lock of the     *)
(* queue of r is Shared with t as its only owner and t requests Exclusive   *)
(* on r, the front lock becomes Exclusive{t} and the locks behind it stay   *)
(* as they are, and the result acquire_locks reports for the request is     *)
(* PromotedLock.                                                            *)

\* the step of the request loop of t that meets the request Exclusive on r
\* with Shared{t} as the front lock
SoleOwnerPromotion(t, r) ==
    /\ pc[t] = "request"
    /\ CurrentRequest(t) = [record |-> r, mode |-> "Exclusive"]
    /\ r \in DOMAIN resources
    /\ resources[r] # <<>>
    /\ resources[r][1] = shared(t)
    /\ pc'[t] # pc[t] \/ req_idx'[t] # req_idx[t]

C21_SoleOwnerPromotion ==
    [][\A t \in Pair, r \in Resources :
        /\ SoleOwnerPromotion(t, r)
           => resources'[r] = <<exclusive(t)>> \o Tail(resources[r])
        /\ (/\ returned' = <<t, "acquire", "Ok">>
            /\ requests[t] = <<[record |-> r, mode |-> "Exclusive"]>>
            /\ granted[t][r] = "Shared"
            /\ resources[r][1] = exclusive(t))
           => LockRequestResult(returned'[3]) = "PromotedLock"]_vars


-----------------------------------------------------------------------------
(* C22: the history verifier reports a serializability violation exactly    *)
(* when the history is not conflict-serializable, that is when the graph    *)
(* with an edge from the transaction of a to the transaction of b, for      *)
(* every pair of conflicting actions a before b of different transactions,  *)
(* has a cycle; every cycle reported is a cycle of that graph.  So for the  *)
(* history `t1 reads R, t2 writes R, t2 reads W, t1 writes W` the cycle of  *)
(* t1 and t2 is reported.                                                   *)

\* the conflict graph of a history
conflict_graph(actions) ==
    [t \in get_all_transaction_ids(actions) |->
        {actions[j].transaction_id : j \in
            {j \in 1..Len(actions) :
                /\ actions[j].transaction_id # t
                /\ actions[j].action.kind = "Query"
                /\ \E i \in 1..(j - 1) :
                       /\ actions[i].transaction_id = t
                       /\ actions[i].action.kind = "Query"
                       /\ conflicts_with_other(actions[i].action, actions[j].action)}}]

conflict_serializable(actions) ==
    \A t \in get_all_transaction_ids(actions) : ~on_cycle(conflict_graph(actions), t)

\* a path whose every node has an edge to the next, and the last to the first
is_cycle_of(graph, cycle) ==
    /\ cycle # <<>>
    /\ \A k \in 1..Len(cycle) :
           /\ cycle[k] \in DOMAIN graph
           /\ cycle[(k % Len(cycle)) + 1] \in graph[cycle[k]]

C22_ReportsExactlyTheCycles ==
    /\ output.op = "detect_cycles"
       => /\ output.cycles # <<>> <=> ~conflict_serializable(input.actions)
          /\ \A k \in 1..Len(output.cycles) :
                 is_cycle_of(conflict_graph(input.actions), output.cycles[k])
    /\ (output.op = "main" /\ input.opens)
       => (output.conflicts # {} <=> ~conflict_serializable(input.actions))

-----------------------------------------------------------------------------
(* C23: the history verifier ends with a failure, a non-zero exit code,     *)
(* whenever it has detected at least one conflict, and with exit code 0     *)
(* only when the history is conflict free.                                  *)

C23_ExitCodeTellsConflicts ==
    output.op = "main" => (output.exit_code = 0 <=> (input.opens /\ output.conflicts = {}))


-----------------------------------------------------------------------------
(* C24: split_stmts_into_transactions partitions a list of statements into  *)
(* groups and keeps the order.  A BEGIN opens a group that collects every   *)
(* following statement up to and including the next COMMIT or ROLLBACK, a   *)
(* statement met while no group is open forms a group of its own, and the   *)
(* groups concatenated give the list.                                       *)

RECURSIVE concat(_)
concat(groups) == IF groups = <<>> THEN <<>> ELSE Head(groups) \o concat(Tail(groups))

closes(stmt) == stmt \in {"COMMIT", "ROLLBACK"}

\* a statement on its own outside a transaction, or a BEGIN with what
\* follows it up to the first COMMIT or ROLLBACK
is_group(group, is_last) ==
    IF group[1] # "BEGIN" THEN Len(group) = 1
    ELSE /\ \A k \in 1..(Len(group) - 1) : ~closes(group[k])
         /\ closes(group[Len(group)]) \/ is_last

C24_SplitPartitions ==
    (output.op = "split" /\ \A i \in 1..Len(input) : input[i] # "SELEC")
    => /\ output.status = "Ok"
       /\ concat(output.transactions) = input
       /\ \A g \in 1..Len(output.transactions) :
              /\ output.transactions[g] # <<>>
              /\ is_group(output.transactions[g], g = Len(output.transactions))


-----------------------------------------------------------------------------
(* C25: the request of a batch that is answered Deadlocked leaves the queue *)
(* of its resource as it was, the transaction is not enqueued by it, and    *)
(* the queues that hold what the earlier requests of the batch created,     *)
(* promoted or found held are left as they are.                             *)

queue_of(table, r) == IF r \in DOMAIN table THEN table[r] ELSE <<>>

AnsweredDeadlocked(t) ==
    /\ pc[t] = "request"
    /\ returned' = <<t, "acquire", "Deadlocked">>

C25_DeadlockedLeavesQueues ==
    [][\A t \in Pair : AnsweredDeadlocked(t) =>
           \A r \in Resources : queue_of(resources', r) = queue_of(resources, r)]_vars

\* a batch answered Deadlocked whose earlier request is still enqueued
C25_Witness ==
    /\ returned = <<"t1", "acquire", "Deadlocked">>
    /\ \E r \in DOMAIN resources : \E i \in 2..Len(resources[r]) :
           "t1" \in resources[r][i].owners


-----------------------------------------------------------------------------
(* C26: coalescing fuses a Shared entry followed by the Exclusive entry of  *)
(* t into Exclusive{t} only when t is the sole owner of the Shared entry;   *)
(* when the Shared entry has another owner both entries stay as they are,   *)
(* in their order.                                                          *)

SharedThenExclusive(queue, t) ==
    /\ Len(queue) = 2
    /\ is_shared(queue[1])
    /\ queue[2] = exclusive(t)

-----------------------------------------------------------------------------
(* C27: the promotion in place of t at a Shared head that has other owners  *)
(* keeps the residual shared holders ahead of t: after it the residual      *)
(* Shared entry of the other owners precedes Exclusive{t} in the queue.     *)

PromotionAmongOthers(t, r) ==
    /\ pc[t] = "request"
    /\ CurrentRequest(t) = [record |-> r, mode |-> "Exclusive"]
    /\ r \in DOMAIN resources
    /\ resources[r] # <<>>
    /\ is_locked_by_shared(resources[r][1], t)
    /\ resources[r][1].owners # {t}
    /\ pc'[t] # pc[t] \/ req_idx'[t] # req_idx[t]

C27_ResidualSharedAhead ==
    [][\A t \in Pair, r \in Resources : PromotionAmongOthers(t, r) =>
           \E i, j \in 1..Len(resources'[r]) :
               /\ i < j
               /\ is_shared(resources'[r][i])
               /\ resources'[r][i].owners = resources[r][1].owners \ {t}
               /\ resources'[r][j] = exclusive(t)]_vars


-----------------------------------------------------------------------------
(* C28: queue order is kept across an Exclusive entry.  A transaction t     *)
(* enqueued behind the Exclusive entry of another transaction u stays       *)
(* behind it, and so is not granted the resource, until that entry has left *)
(* the queue by u's release or removal; and the coalescing that follows an  *)
(* enqueue never carries the new entry of t over an Exclusive entry into a  *)
(* Shared entry ahead of it.                                                *)

\* t is named only behind the Exclusive entry of u
queued_behind(queue, t, u) ==
    \E i \in 1..Len(queue) :
        /\ queue[i] = exclusive(u)
        /\ \E j \in (i + 1)..Len(queue) : t \in queue[j].owners
        /\ \A j \in 1..i : t \notin queue[j].owners

has_exclusive(queue, u) == \E i \in 1..Len(queue) : queue[i] = exclusive(u)

C28_OrderAcrossExclusive ==
    [][\A t, u \in Transactions : (t # u /\ "A" \in DOMAIN resources) =>
           /\ queued_behind(resources["A"], t, u) =>
                  \/ queued_behind(resources'["A"], t, u)
                  \/ ~has_exclusive(resources'["A"], u)
                  \/ t \notin queue_owners(resources'["A"])
           /\ (pc[t] = "enqueue" /\ pc'[t] # "enqueue"
                   /\ has_exclusive(resources["A"], u)
                   /\ t \notin queue_owners(resources["A"]))
                  => queued_behind(resources'["A"], t, u)]_vars

\* two Shared entries with the Exclusive entry of t2 between them
C28_Witness ==
    /\ "A" \in DOMAIN resources
    /\ resources["A"] = <<shared("t1"), exclusive("t2"), shared("t3")>>
    /\ pc["t3"] = "wait"


-----------------------------------------------------------------------------
(* C29: a Shared request enqueued on a resource whose last queue entry is   *)
(* Shared is merged into that entry: no entry is added, the owners are      *)
(* united and the transaction is appended at the end of the order; when     *)
(* that entry is the head the transaction is named in the head at once.     *)
(* t1 then t2 acquiring Shared(A) gives [Shared{{t1,t2},[t1,t2]}].          *)

EnqueuesSharedOnShared(t) ==
    /\ pc[t] = "enqueue"
    /\ pc'[t] # "enqueue"
    /\ CurrentRequest(t) = [record |-> "A", mode |-> "Shared"]
    /\ resources["A"] # <<>>
    /\ is_shared(resources["A"][Len(resources["A"])])

ends_with(order, suffix) ==
    /\ Len(suffix) <= Len(order)
    /\ SubSeq(order, Len(order) - Len(suffix) + 1, Len(order)) = suffix

C29_SharedMergedOnEnqueue ==
    [][\A t \in Transactions : EnqueuesSharedOnShared(t) =>
           LET queue == resources["A"]
               last == queue[Len(queue)]
               merged == resources'["A"][Len(resources'["A"])]
           IN  /\ Len(resources'["A"]) <= Len(queue)
               /\ is_shared(merged)
               /\ merged.owners = {merged.order[i] : i \in 1..Len(merged.order)}
               /\ last.owners \cup {t} \subseteq merged.owners
               /\ ends_with(merged.order, last.order \o <<t>>)
               /\ Len(queue) = 1 =>
                      resources'["A"] = <<[kind |-> "Shared",
                                           owners |-> last.owners \cup {t},
                                           order |-> last.order \o <<t>>]>>]_vars

\* t1 then t2 have acquired Shared(A)
C29_Witness ==
    /\ "A" \in DOMAIN resources
    /\ resources["A"] = <<[kind |-> "Shared", owners |-> {"t1", "t2"},
                           order |-> <<"t1", "t2">>]>>
    /\ returned = <<"t2", "acquire", "Ok">>


-----------------------------------------------------------------------------
(* C30: a writer queued behind readers is granted only after all of them    *)
(* have released.  While the Shared head has an owner left, the waiting     *)
(* Exclusive entry behind it is not at the head and the writer's           *)
(* acquire_locks does not return; the release of the last shared owner      *)
(* drops the Shared entry and makes the Exclusive entry the head.           *)

WriterBehindReaders(queue, writer) ==
    /\ Len(queue) >= 2
    /\ is_shared(queue[1])
    /\ writer \notin queue[1].owners
    /\ queue[2] = exclusive(writer)

C30_WriterAfterReaders ==
    [][\A writer \in Transactions :
           ("A" \in DOMAIN resources
                /\ WriterBehindReaders(resources["A"], writer)
                /\ pc[writer] = "wait") =>
               LET queue == resources["A"]
                   readers == queue[1].owners
               IN  /\ returned' # <<writer, "acquire", "Ok">>
                   /\ (resources'["A"] # <<>> /\ resources'["A"][1] = exclusive(writer))
                          => \E t \in readers :
                                 /\ readers = {t}
                                 /\ t \notin queue_owners(resources'["A"])
                   /\ \A t \in readers :
                          returned' = <<t, "release", "Ok">> =>
                              resources'["A"] =
                                  IF readers = {t} THEN Tail(queue)
                                  ELSE <<[kind |-> "Shared", owners |-> readers \ {t},
                                          order |-> remove_first(queue[1].order, t)]>>
                                       \o Tail(queue)]_vars

\* both readers have released and the writer's entry is the head
C30_Witness ==
    /\ "A" \in DOMAIN resources
    /\ resources["A"] = <<exclusive("t3")>>
    /\ pc["t3"] = "wait"
    /\ {"t1", "t2"} \subseteq shrinking
    /\ returned = <<"t2", "release", "Ok">>


-----------------------------------------------------------------------------
(* C31: in every Shared entry of every queue the owners are the elements of *)
(* the order and the order names no transaction twice, after enqueue with   *)
(* coalescing, promotion, release_lock and remove_all_pending_requests.     *)

owners_match_order(lock) ==
    /\ lock.owners = {lock.order[k] : k \in 1..Len(lock.order)}
    /\ \A k, l \in 1..Len(lock.order) : k # l => lock.order[k] # lock.order[l]

C31_OwnersAreOrder ==
    \A r \in DOMAIN resources : \A i \in 1..Len(resources[r]) :
        is_shared(resources[r][i]) => owners_match_order(resources[r][i])

\* t1 has released its share of a Shared head that t2 and t3 keep
C31_Witness ==
    /\ "A" \in DOMAIN resources
    /\ resources["A"] # <<>>
    /\ resources["A"][1] = [kind |-> "Shared", owners |-> {"t2", "t3"},
                            order |-> <<"t2", "t3">>]
    /\ returned = <<"t1", "release", "Ok">>


-----------------------------------------------------------------------------
(* C32: remove_all_pending_requests(t) removes in every queue each entry    *)
(* whose only owner is t and drops t from the owners and the order of each  *)
(* Shared entry it shares; afterwards t is named in no queue, and what the  *)
(* other transactions have in the queues is as before, in the same order.   *)

without(lock, t) ==
    [kind |-> lock.kind, owners |-> lock.owners \ {t},
     order |-> SelectSeq(lock.order, LAMBDA id : id # t)]

queue_without(queue, t) ==
    SelectSeq([i \in 1..Len(queue) |-> without(queue[i], t)],
              LAMBDA lock : lock.owners # {})

RemovesPending(t) == returned' = <<t, "remove_pending", "Ok">>

C32_RemovePendingRemovesOnlyT ==
    [][\A t \in Pair : RemovesPending(t) =>
           /\ DOMAIN resources' = DOMAIN resources
           /\ \A r \in DOMAIN resources :
                  /\ resources'[r] = queue_without(resources[r], t)
                  /\ t \notin queue_owners(resources'[r])]_vars

\* t1 has removed its requests and t2 still has its entries on A and B
C32_Witness ==
    /\ returned = <<"t1", "remove_pending", "Ok">>
    /\ "t1" \in growing
    /\ DOMAIN resources = {"A", "B"}
    /\ resources["A"] = <<shared("t2")>>
    /\ resources["B"] = <<exclusive("t2")>>


-----------------------------------------------------------------------------
(* C33: the phase of a transaction only moves absent -> growing ->          *)
(* shrinking -> absent.  No operation of the live transaction set puts a    *)
(* transaction that is shrinking, and no longer growing, back into growing; *)
(* the first release moves a growing transaction to shrinking and a later   *)
(* release finds it shrinking and leaves it there.                          *)
C33_PhaseOneWay ==
    [][\A t \in Pair :
           (t \in shrinking /\ t \notin growing) => t \notin growing']_vars


-----------------------------------------------------------------------------
(* C34: ConflictGraph::build adds an edge from the transaction of a to the  *)
(* transaction of b, another transaction, for Query actions a before b in   *)
(* the history exactly when they conflict: Read-Write when a's read set     *)
(* meets b's write set, Write-Read when a's write set meets b's read set,   *)
(* Write-Write when the write sets meet, each with the tables in common.    *)
(* No other edge is added and no conflicting pair is left without its edge. *)

conflicting_pairs(actions) ==
    {pair \in (1..Len(actions)) \X (1..Len(actions)) :
        /\ pair[1] < pair[2]
        /\ actions[pair[1]].action.kind = "Query"
        /\ actions[pair[2]].action.kind = "Query"
        /\ actions[pair[1]].transaction_id # actions[pair[2]].transaction_id}

edges_of_pair(actions, a, b) ==
    LET common(kind, tables) ==
            IF tables = {} THEN {}
            ELSE {[causing |-> actions[a].transaction_id,
                   conflicting |-> actions[b].transaction_id,
                   outer |-> a, inner |-> b, kind |-> kind, tables |-> tables]}
    IN  common("ReadWrite", actions[a].action.read_set \cap actions[b].action.write_set)
        \cup common("WriteRead", actions[a].action.write_set \cap actions[b].action.read_set)
        \cup common("WriteWrite", actions[a].action.write_set \cap actions[b].action.write_set)

C34_EdgeForEveryConflict ==
    output.op = "detect_cycles" =>
        build_edges(input.actions) =
            UNION {edges_of_pair(input.actions, pair[1], pair[2]) :
                       pair \in conflicting_pairs(input.actions)}


-----------------------------------------------------------------------------
(* C35: release_all_locks(t) releases every resource at whose queue head t  *)
(* is named: when it has returned Ok, t is named in the front lock of no    *)
(* queue, whatever the other transactions did between the lock_set          *)
(* snapshot and the release.                                                *)
C35_ReleaseAllLeavesNoHead ==
    \A t \in Pair :
        returned = <<t, "release_all", "Ok">> => lock_set(resources, t) = {}


-----------------------------------------------------------------------------
(* C36: in every reachable state a transaction is named by at most one      *)
(* entry of the queue of a resource: acquire_locks adds no second entry for *)
(* a transaction that already has one, granted or waiting, in that queue.   *)
C36_NamedOncePerQueue ==
    \A r \in DOMAIN resources : \A i, j \in 1..Len(resources[r]) :
        i # j => resources[r][i].owners \cap resources[r][j].owners = {}

\* t2 waits behind t1 on A and has asked for A again
C36_Witness ==
    /\ "A" \in DOMAIN resources
    /\ resources["A"] = <<shared("t1"), exclusive("t2")>>
    /\ returned = <<"t2", "acquire", "Deadlocked">>


-----------------------------------------------------------------------------
(* C37: a release_lock that returns an error leaves the lock table as it    *)
(* was, the phase of the transaction included: a growing transaction whose  *)
(* release is rejected because it does not own the resource is still        *)
(* growing afterwards.                                                      *)
ReleaseRejected(t) ==
    /\ returned' # <<>>
    /\ returned'[1] = t
    /\ returned'[2] = "release"
    /\ returned'[3] \in {"NotOwned", "NotGrowing"}

C37_RejectedReleaseChangesNothing ==
    [][\A t \in Pair : ReleaseRejected(t) =>
           /\ resources' = resources
           /\ growing' = growing
           /\ shrinking' = shrinking]_vars


-----------------------------------------------------------------------------
(* C38: an Exclusive head is stable.  Once the front lock of a queue is     *)
(* Exclusive{t} it stays Exclusive{t} until t releases the resource, t's    *)
(* requests are removed or t is finalized: no acquire_locks, promotion,     *)
(* coalescing or release of another transaction changes or displaces it.    *)

exclusive_head(table, t, r) ==
    /\ r \in DOMAIN table
    /\ table[r] # <<>>
    /\ table[r][1] = exclusive(t)

\* the step is a release, a removal of the requests or the release of a
\* finalization, by t itself
GivesUp(t) ==
    \/ /\ returned' # <<>>
       /\ returned'[1] = t
       /\ returned'[2] \in {"release", "release_all", "remove_pending", "finalize"}
    \/ /\ pc[t] = "finalize"
       /\ lock_set_snap'[t] # lock_set_snap[t]

C38_ExclusiveHeadStable ==
    [][\A t \in Transactions, r \in Resources :
           (exclusive_head(resources, t, r) /\ ~GivesUp(t))
               => exclusive_head(resources', t, r)]_vars

\* t2 has enqueued behind the Exclusive head of t1 and waits
C38_Witness ==
    /\ "A" \in DOMAIN resources
    /\ resources["A"] = <<exclusive("t1"), exclusive("t2")>>
    /\ pc["t2"] = "wait"
    /\ pc["t1"] = "idle"


-----------------------------------------------------------------------------
(* C39: a release_lock(t, r) that succeeds changes only the front lock of   *)
(* the queue of r: t leaves the owners and the order of a Shared front      *)
(* lock, which is dropped only when t was its last owner, or the Exclusive  *)
(* front lock of t is dropped.  The other locks of the queue, the other     *)
(* owners of the front lock, the other queues and the phases of the other   *)
(* transactions are as before.                                              *)

head_released(queue, t) ==
    IF queue[1].owners = {t} THEN Tail(queue)
    ELSE <<[kind |-> "Shared", owners |-> queue[1].owners \ {t},
            order |-> SelectSeq(queue[1].order, LAMBDA id : id # t)]>>
         \o Tail(queue)

ReleaseSucceeds(t) == returned' = <<t, "release", "Ok">>

C39_ReleaseChangesHeadOnly ==
    [][\A t \in Pair : ReleaseSucceeds(t) =>
           /\ DOMAIN resources' = DOMAIN resources
           /\ \E r \in DOMAIN resources :
                  /\ resources[r] # <<>>
                  /\ t \in resources[r][1].owners
                  /\ resources'[r] = head_released(resources[r], t)
                  /\ \A other \in DOMAIN resources \ {r} :
                         resources'[other] = resources[other]
           /\ growing' \ {t} = growing \ {t}
           /\ shrinking' \ {t} = shrinking \ {t}]_vars

\* t1 has released its share of A; t2 keeps its share and its lock on B
C39_Witness ==
    /\ returned = <<"t1", "release", "Ok">>
    /\ DOMAIN resources = {"A", "B"}
    /\ resources["A"] = <<shared("t2")>>
    /\ resources["B"] = <<exclusive("t2")>>
    /\ "t2" \in growing


-----------------------------------------------------------------------------
(* C40: acquire_locks returns Deadlocked only when the wait cycle holds at  *)
(* least two distinct transactions.  A batch of t that requests Shared and  *)
(* Exclusive on one resource, or a request of t for a resource on which t   *)
(* already waits, is not reported as a deadlock when no other transaction   *)
(* waits for a lock held by t.                                              *)

without_self_edges(graph) == [u \in DOMAIN graph |-> graph[u] \ {u}]

C40_DeadlockNeedsTwoTransactions ==
    [][\A t \in Pair :
          (pc[t] = "request" /\ returned' = <<t, "acquire", "Deadlocked">>) =>
              LET graph == without_self_edges(
                               insert_edges(construct(resources), t,
                                   queue_owners(resources[CurrentRequest(t).record])))
              IN  \E u \in DOMAIN graph : on_cycle(graph, u)]_vars

====
